---- MODULE Spec2Model ----
(***************************************************************************)
(* The declaration program of infracost-demo-cdk: bin/demo-cdk.ts creates  *)
(* one App and runs the constructors of DemoCdkStack and                   *)
(* SqlServerBahrainStack (lib/demo-cdk-stack.ts), statement by statement.  *)
(* Each statement of the constructors is one action; the state is the      *)
(* resource graph declared so far.  Several executions of the program      *)
(* (runs) are modelled one after the other, each with its own App and its  *)
(* own process environment, so that two declarations can be compared.      *)
(***************************************************************************)
EXTENDS Integers, Sequences, FiniteSets, TLC

VARIABLES pc, graph, processEnv

vars == <<pc, graph, processEnv>>

\* Number of executions of bin/demo-cdk.ts, run one after the other.
NumRuns == 2

Runs == 1..NumRuns

\* Values CDK_DEFAULT_REGION may have in the process that runs the program.
DefaultRegions == {"us-east-1", "me-south-1"}

(***************************************************************************)
(* Resource descriptors.  Every declared construct is a record             *)
(*   kind, stack : the construct class and the stack it belongs to         *)
(*   props       : the properties given to its constructor                 *)
(*   refs        : the constructs it reads (paths in the same run)         *)
(*   ingress, tags, capacity, healthCheck : collections that methods       *)
(*     called after construction add to (empty for kinds lacking them).    *)
(***************************************************************************)
Resource(kind, stack, props, refs) ==
  [kind |-> kind, stack |-> stack, props |-> props, refs |-> refs,
   ingress |-> {}, tags |-> {}, capacity |-> {}, healthCheck |-> {}]

Path(stack, id) == stack \o "/" \o id

DemoStack == "DemoCdkStack"
BahrainStack == "SqlServerBahrainStack"

Attr(path, attr) == [ref |-> path, attr |-> attr]

\* ec2.Peer / ISecurityGroup used as the source of an ingress rule.
SgPeer(path) == [type |-> "sg", id |-> path]
AnyIpv4 == [type |-> "cidr", id |-> "0.0.0.0/0"]

IngressRule(peer, port, description) ==
  [peer |-> peer, port |-> port, description |-> description]

(***************************************************************************)
(* ec2.Vpc: maxAzs availability zones, one subnet per subnetConfiguration  *)
(* entry and zone.                                                         *)
(***************************************************************************)
SubnetConfiguration ==
  << [name |-> "Public", subnetType |-> "PUBLIC", cidrMask |-> 24],
     [name |-> "Private", subnetType |-> "PRIVATE_WITH_EGRESS", cidrMask |-> 24],
     [name |-> "Isolated", subnetType |-> "PRIVATE_ISOLATED", cidrMask |-> 24] >>

VpcProps ==
  [maxAzs |-> 2, natGateways |-> 1, subnetConfiguration |-> SubnetConfiguration]

Subnets(vpcPath, props) ==
  { [vpc |-> vpcPath, name |-> props.subnetConfiguration[i].name,
     subnetType |-> props.subnetConfiguration[i].subnetType, az |-> z] :
      i \in DOMAIN props.subnetConfiguration, z \in 1..props.maxAzs }

\* Mutant: the selection ignores the subnet type.
SelectAllSubnets(g, vpcPath, subnetType) == Subnets(vpcPath, g[vpcPath].props)

\* vpc.selectSubnets({ subnetType }): the subnets of that vpc with that type.
SelectSubnets(g, vpcPath, subnetType) ==
  { s \in Subnets(vpcPath, g[vpcPath].props) : s.subnetType = subnetType }

(***************************************************************************)
(* Program order.  Statements holds the labels of the statements of        *)
(* bin/demo-cdk.ts in execution order, the two constructors inlined.       *)
(***************************************************************************)
\* Mutant: the ingress rule statement placed before the service it reads.
DemoCdkStackBodyRuleBeforeService ==
  << "DemoCdkStack", "DemoVpc", "DemoCluster", "DbSecurityGroup", "DemoDatabase",
     "DbIngressRule", "DemoWebApp", "ConfigureHealthCheck", "AutoScaleTaskCount",
     "CpuScaling", "MemoryScaling", "LatestAmazonLinux2", "Ec2SecurityGroup",
     "Ec2IngressRule", "Ec2InstanceRole",
     "WebTierAsg", "WebTierAsg.Tier", "WebTierAsg.InstanceGeneration",
     "AppTierAsg", "AppTierAsg.Tier", "AppTierAsg.InstanceGeneration",
     "WorkerTierAsg", "WorkerTierAsg.Tier", "WorkerTierAsg.InstanceGeneration",
     "MemoryTierAsg", "MemoryTierAsg.Tier", "MemoryTierAsg.InstanceGeneration",
     "LegacyEcsCluster", "LegacyCapacity", "LegacyCapacityM3",
     "LoadBalancerDNS", "VpcId", "DatabaseEndpoint", "WebTierAsgName",
     "LegacyEcsClusterName" >>

DemoCdkStackBody ==
  << "DemoCdkStack", "DemoVpc", "DemoCluster", "DbSecurityGroup", "DemoDatabase",
     "DemoWebApp", "DbIngressRule", "ConfigureHealthCheck", "AutoScaleTaskCount",
     "CpuScaling", "MemoryScaling", "LatestAmazonLinux2", "Ec2SecurityGroup",
     "Ec2IngressRule", "Ec2InstanceRole",
     "WebTierAsg", "WebTierAsg.Tier", "WebTierAsg.InstanceGeneration",
     "AppTierAsg", "AppTierAsg.Tier", "AppTierAsg.InstanceGeneration",
     "WorkerTierAsg", "WorkerTierAsg.Tier", "WorkerTierAsg.InstanceGeneration",
     "MemoryTierAsg", "MemoryTierAsg.Tier", "MemoryTierAsg.InstanceGeneration",
     "LegacyEcsCluster", "LegacyCapacity", "LegacyCapacityM3",
     "LoadBalancerDNS", "VpcId", "DatabaseEndpoint", "WebTierAsgName",
     "LegacyEcsClusterName" >>

SqlServerBahrainStackBody ==
  << "SqlServerBahrainStack", "SqlServerVpc", "SqlServerSecurityGroup",
     "SqlServerEnterprise", "SqlServerEndpoint", "SqlServerVpcId" >>

Statements == <<"App">> \o DemoCdkStackBody \o SqlServerBahrainStackBody

Done(r) == pc[r] = Len(Statements) + 1

\* Run r is at the statement named label; a run starts when the one before
\* it has ended.
At(r, label) ==
  /\ IF r = 1 THEN TRUE ELSE Done(r - 1)
  /\ pc[r] \in DOMAIN Statements
  /\ Statements[pc[r]] = label

\* A statement that declares a new construct at path p.
Declare(r, p, rec) ==
  /\ graph' = [graph EXCEPT ![r] = @ @@ (p :> rec)]
  /\ pc' = [pc EXCEPT ![r] = @ + 1]
  /\ UNCHANGED processEnv

\* A statement that declares several constructs at once (a pattern construct).
DeclareAll(r, recs) ==
  /\ graph' = [graph EXCEPT ![r] = @ @@ recs]
  /\ pc' = [pc EXCEPT ![r] = @ + 1]
  /\ UNCHANGED processEnv

Init ==
  /\ pc = [r \in Runs |-> 1]
  /\ graph = [r \in Runs |-> << >>]
  /\ processEnv \in [Runs -> DefaultRegions]

(***************************************************************************)
(* bin/demo-cdk.ts                                                         *)
(***************************************************************************)
App(r) ==
  /\ At(r, "App")
  /\ Declare(r, "App", Resource("App", "", [scope |-> ""], {}))

\* Mutant: the env line of bin/demo-cdk.ts uncommented, the region taken from
\* CDK_DEFAULT_REGION.
DemoCdkStackPropsFromEnv(r) == [region |-> processEnv[r], description |-> ""]

\* The props bin/demo-cdk.ts passes to DemoCdkStack: none (environment-agnostic).
DemoCdkStackProps(r) == [region |-> "AWS::Region", description |-> ""]

DemoCdkStack(r) ==
  /\ At(r, "DemoCdkStack")
  /\ Declare(r, DemoStack,
             Resource("Stack", DemoStack, [scope |-> "App"] @@ DemoCdkStackProps(r), {}))

SqlServerBahrainStackProps(r) ==
  [region |-> "me-south-1",
   description |-> "SQL Server Enterprise Multi-AZ (db.r5.24xlarge) in Bahrain region"]

SqlServerBahrainStack(r) ==
  /\ At(r, "SqlServerBahrainStack")
  /\ Declare(r, BahrainStack,
             Resource("Stack", BahrainStack,
                      [scope |-> "App"] @@ SqlServerBahrainStackProps(r), {}))

(***************************************************************************)
(* lib/demo-cdk-stack.ts, DemoCdkStack constructor                         *)
(***************************************************************************)
DemoVpc(r) ==
  /\ At(r, "DemoVpc")
  /\ Declare(r, Path(DemoStack, "DemoVpc"), Resource("Vpc", DemoStack, VpcProps, {}))

DemoClusterProps ==
  [vpc |-> Path(DemoStack, "DemoVpc"), containerInsights |-> TRUE]

DemoCluster(r) ==
  /\ At(r, "DemoCluster")
  /\ Declare(r, Path(DemoStack, "DemoCluster"),
             Resource("Cluster", DemoStack, DemoClusterProps, {DemoClusterProps.vpc}))

DbSecurityGroupProps ==
  [vpc |-> Path(DemoStack, "DemoVpc"),
   description |-> "Security group for RDS instance",
   allowAllOutbound |-> FALSE]

\* new ec2.SecurityGroup(...): a group with no ingress rule.
SecurityGroup(stack, props) == Resource("SecurityGroup", stack, props, {props.vpc})

DbSecurityGroup(r) ==
  /\ At(r, "DbSecurityGroup")
  /\ Declare(r, Path(DemoStack, "DbSecurityGroup"),
             SecurityGroup(DemoStack, DbSecurityGroupProps))

DemoDatabaseProps ==
  [engine |-> "postgres", version |-> "15", instanceType |-> "t3.micro",
   vpc |-> Path(DemoStack, "DemoVpc"),
   subnetType |-> "PRIVATE_ISOLATED",
   securityGroups |-> {Path(DemoStack, "DbSecurityGroup")},
   databaseName |-> "demodb",
   allocatedStorage |-> 20, maxAllocatedStorage |-> 100,
   multiAz |-> FALSE, licenseModel |-> "",
   deletionProtection |-> FALSE, removalPolicy |-> "DESTROY"]

\* new rds.DatabaseInstance(...): the instance and the subnet group it is
\* placed in, which holds the subnets vpcSubnets selects.
DatabaseInstance(g, stack, id, props) ==
  (Path(stack, id) :>
     Resource("DatabaseInstance", stack, props,
              {props.vpc, Path(stack, id \o "/SubnetGroup")} \cup props.securityGroups))
  @@
  (Path(stack, id \o "/SubnetGroup") :>
     Resource("SubnetGroup", stack,
              [vpc |-> props.vpc,
               subnets |-> SelectSubnets(g, props.vpc, props.subnetType)],
              {props.vpc}))

DemoDatabase(r) ==
  /\ At(r, "DemoDatabase")
  /\ DeclareAll(r, DatabaseInstance(graph[r], DemoStack, "DemoDatabase", DemoDatabaseProps))

DemoWebAppProps ==
  [cluster |-> Path(DemoStack, "DemoCluster"),
   cpu |-> 256, memoryLimitMiB |-> 512, desiredCount |-> 2,
   image |-> "nginx:alpine", containerPort |-> 80,
   environment |->
     [DB_HOST |-> Attr(Path(DemoStack, "DemoDatabase"), "dbInstanceEndpointAddress"),
      DB_PORT |-> Attr(Path(DemoStack, "DemoDatabase"), "dbInstanceEndpointPort")],
   publicLoadBalancer |-> TRUE]

\* new ecsPatterns.ApplicationLoadBalancedFargateService(...): the pattern
\* declares a load balancer with its own security group and target group,
\* a task definition, and the Fargate service with its own security group.
\* The listener is open to any address; the service admits the load balancer.
ApplicationLoadBalancedFargateService(g, stack, id, props) ==
  LET self == Path(stack, id)
      vpc  == g[props.cluster].props.vpc
      lb   == self \o "/LB"
      lbSg == self \o "/LB/SecurityGroup"
      tg   == self \o "/LB/PublicListener/ECSGroup"
      td   == self \o "/TaskDef"
      svc  == self \o "/Service"
      svcSg == self \o "/Service/SecurityGroup"
  IN
  (self :> Resource("ApplicationLoadBalancedFargateService", stack, props,
                    {props.cluster, props.environment.DB_HOST.ref,
                     props.environment.DB_PORT.ref}))
  @@
  (lbSg :> [SecurityGroup(stack, [vpc |-> vpc,
                                  description |-> "Automatically created Security Group for ELB",
                                  allowAllOutbound |-> FALSE])
            EXCEPT !.ingress = {IngressRule(AnyIpv4, 80, "Allow from anyone on port 80")}])
  @@
  (lb :> Resource("ApplicationLoadBalancer", stack,
                  [vpc |-> vpc, internetFacing |-> props.publicLoadBalancer,
                   subnetType |-> IF props.publicLoadBalancer
                                  THEN "PUBLIC" ELSE "PRIVATE_WITH_EGRESS",
                   securityGroups |-> {lbSg}],
                  {vpc, lbSg}))
  @@
  (tg :> Resource("ApplicationTargetGroup", stack,
                  [vpc |-> vpc, port |-> 80], {vpc, lb}))
  @@
  (td :> Resource("FargateTaskDefinition", stack,
                  [cpu |-> props.cpu, memoryLimitMiB |-> props.memoryLimitMiB,
                   image |-> props.image, containerPort |-> props.containerPort,
                   environment |-> props.environment],
                  {props.environment.DB_HOST.ref, props.environment.DB_PORT.ref}))
  @@
  (svcSg :> [SecurityGroup(stack, [vpc |-> vpc,
                                   description |-> "DemoWebApp/Service/SecurityGroup",
                                   allowAllOutbound |-> TRUE])
             EXCEPT !.ingress = {IngressRule(SgPeer(lbSg), props.containerPort,
                                             "Load balancer to target")},
                    !.refs = @ \cup {lbSg}])
  @@
  (svc :> Resource("FargateService", stack,
                   [cluster |-> props.cluster, taskDefinition |-> td,
                    desiredCount |-> props.desiredCount,
                    subnetType |-> "PRIVATE_WITH_EGRESS",
                    securityGroups |-> {svcSg}],
                   {props.cluster, td, svcSg, tg}))

DemoWebApp(r) ==
  /\ At(r, "DemoWebApp")
  /\ DeclareAll(r, ApplicationLoadBalancedFargateService(
                     graph[r], DemoStack, "DemoWebApp", DemoWebAppProps))

\* fargateService.service.connections.securityGroups[0]
ServiceSecurityGroup(fargateService) == fargateService \o "/Service/SecurityGroup"

\* fargateService.loadBalancer.connections.securityGroups[0]
LoadBalancerSecurityGroup(fargateService) == fargateService \o "/LB/SecurityGroup"

\* securityGroup.addIngressRule(peer, port, description)
AddIngressRule(g, sg, peer, port, description) ==
  [g EXCEPT ![sg].ingress = @ \cup {IngressRule(peer, port, description)},
            ![sg].refs = @ \cup (IF peer.type = "sg" THEN {peer.id} ELSE {})]

\* A statement that calls a method on constructs declared before.
Configure(r, g) ==
  /\ graph' = [graph EXCEPT ![r] = g]
  /\ pc' = [pc EXCEPT ![r] = @ + 1]
  /\ UNCHANGED processEnv

\* Mutant: the rule names the load balancer's group instead of the service's.
DbIngressPeerLoadBalancer == SgPeer(LoadBalancerSecurityGroup(Path(DemoStack, "DemoWebApp")))

\* The peer of the rule the constructor adds to the database's group.
DbIngressPeer == SgPeer(ServiceSecurityGroup(Path(DemoStack, "DemoWebApp")))

DbIngressRule(r) ==
  /\ At(r, "DbIngressRule")
  /\ Configure(r, AddIngressRule(graph[r], Path(DemoStack, "DbSecurityGroup"),
                                 DbIngressPeer, 5432,
                                 "Allow Fargate service to connect to PostgreSQL"))

\* Mutant: a health check on another path that accepts any 2xx code.
HealthCheckAny2xx == [path |-> "/health", healthyHttpCodes |-> "200-299"]

HealthCheck == [path |-> "/", healthyHttpCodes |-> "200"]

\* targetGroup.configureHealthCheck(hc): hc becomes the group's health check.
ConfigureHealthCheck(r) ==
  /\ At(r, "ConfigureHealthCheck")
  /\ Configure(r, [graph[r] EXCEPT
                     ![Path(DemoStack, "DemoWebApp/LB/PublicListener/ECSGroup")].healthCheck
                        = {HealthCheck}])

ScalingProps == [minCapacity |-> 2, maxCapacity |-> 10]

ScalableTarget == Path(DemoStack, "DemoWebApp/Service/TaskCount/Target")

\* service.autoScaleTaskCount(props): declares the scalable target.
AutoScaleTaskCount(r) ==
  /\ At(r, "AutoScaleTaskCount")
  /\ Declare(r, ScalableTarget,
             Resource("ScalableTaskCount", DemoStack,
                      [service |-> Path(DemoStack, "DemoWebApp/Service")] @@ ScalingProps,
                      {Path(DemoStack, "DemoWebApp/Service")}))

\* scaling.scaleOn<Metric>Utilization(id, props): a target-tracking policy.
ScalingPolicy(id, metric, targetUtilizationPercent) ==
  (ScalableTarget \o "/" \o id) :>
     Resource("TargetTrackingScalingPolicy", DemoStack,
              [scalingTarget |-> ScalableTarget, metric |-> metric,
               targetUtilizationPercent |-> targetUtilizationPercent],
              {ScalableTarget})

CpuScaling(r) ==
  /\ At(r, "CpuScaling")
  /\ DeclareAll(r, ScalingPolicy("CpuScaling", "ECSServiceAverageCPUUtilization", 70))

MemoryScaling(r) ==
  /\ At(r, "MemoryScaling")
  /\ DeclareAll(r, ScalingPolicy("MemoryScaling", "ECSServiceAverageMemoryUtilization", 70))

\* ec2.MachineImage.latestAmazonLinux2(): the image every tier pool uses.
LatestAmazonLinux2(r) ==
  /\ At(r, "LatestAmazonLinux2")
  /\ Declare(r, Path(DemoStack, "ami"),
             Resource("MachineImage", DemoStack, [name |-> "amzn2-ami-hvm-x86_64-gp2"], {}))

Ec2SecurityGroupProps ==
  [vpc |-> Path(DemoStack, "DemoVpc"),
   description |-> "Security group for EC2 instances",
   allowAllOutbound |-> TRUE]

Ec2SecurityGroup(r) ==
  /\ At(r, "Ec2SecurityGroup")
  /\ Declare(r, Path(DemoStack, "Ec2SecurityGroup"),
             SecurityGroup(DemoStack, Ec2SecurityGroupProps))

\* Mutant: the SSH rule is added to the database's group.
Ec2IngressRuleOnDbGroup(r) ==
  /\ At(r, "Ec2IngressRule")
  /\ Configure(r, AddIngressRule(graph[r], Path(DemoStack, "DbSecurityGroup"),
                                 AnyIpv4, 22, "Allow SSH access"))

Ec2IngressRule(r) ==
  /\ At(r, "Ec2IngressRule")
  /\ Configure(r, AddIngressRule(graph[r], Path(DemoStack, "Ec2SecurityGroup"),
                                 AnyIpv4, 22, "Allow SSH access"))

Ec2InstanceRole(r) ==
  /\ At(r, "Ec2InstanceRole")
  /\ Declare(r, Path(DemoStack, "Ec2InstanceRole"),
             Resource("Role", DemoStack,
                      [assumedBy |-> "ec2.amazonaws.com",
                       managedPolicies |-> {"AmazonSSMManagedInstanceCore"}], {}))

\* The four tier pools: id, instance type and capacity bounds.
TierAsgIds == {"WebTierAsg", "AppTierAsg", "WorkerTierAsg", "MemoryTierAsg"}

\* Mutant: the worker pool's minimum and desired capacities exchanged.
TierCapacityDesiredBelowMin(id) ==
  CASE id = "WorkerTierAsg" ->
         [instanceType |-> "t2.large", minCapacity |-> 3, maxCapacity |-> 10,
          desiredCapacity |-> 1]
    [] OTHER ->
         [instanceType |-> "m4.large", minCapacity |-> 2, maxCapacity |-> 8,
          desiredCapacity |-> 2]

TierCapacity(id) ==
  CASE id = "WebTierAsg" ->
         [instanceType |-> "m4.large", minCapacity |-> 2, maxCapacity |-> 8,
          desiredCapacity |-> 2]
    [] id = "AppTierAsg" ->
         [instanceType |-> "c4.xlarge", minCapacity |-> 2, maxCapacity |-> 6,
          desiredCapacity |-> 2]
    [] id = "WorkerTierAsg" ->
         [instanceType |-> "t2.large", minCapacity |-> 1, maxCapacity |-> 10,
          desiredCapacity |-> 3]
    [] id = "MemoryTierAsg" ->
         [instanceType |-> "r4.large", minCapacity |-> 1, maxCapacity |-> 4,
          desiredCapacity |-> 2]

TierAsgProps(id) ==
  [vpc |-> Path(DemoStack, "DemoVpc"),
   subnetType |-> "PRIVATE_WITH_EGRESS",
   machineImage |-> Path(DemoStack, "ami"),
   role |-> Path(DemoStack, "Ec2InstanceRole"),
   securityGroups |-> {Path(DemoStack, "Ec2SecurityGroup")}] @@ TierCapacity(id)

\* new autoscaling.AutoScalingGroup(this, id, props)
AutoScalingGroup(r) ==
  \E id \in TierAsgIds :
    /\ At(r, id)
    /\ LET props == TierAsgProps(id) IN
       Declare(r, Path(DemoStack, id),
               Resource("AutoScalingGroup", DemoStack, props,
                        {props.vpc, props.machineImage, props.role}
                          \cup props.securityGroups))

\* The tag each cdk.Tags.of(asg).add(key, value) statement adds.
TierName(id) ==
  CASE id = "WebTierAsg" -> "Web"
    [] id = "AppTierAsg" -> "Application"
    [] id = "WorkerTierAsg" -> "Worker"
    [] id = "MemoryTierAsg" -> "Memory"

\* Mutant: adding a tag drops the tags added before.
ReplaceTags(g, p, key, value) ==
  [g EXCEPT ![p].tags = {[key |-> key, value |-> value]}]

\* cdk.Tags.of(asg).add(key, value)
AddTag(g, p, key, value) ==
  [g EXCEPT ![p].tags = @ \cup {[key |-> key, value |-> value]}]

TagsAdd(r) ==
  \E id \in TierAsgIds :
    \/ /\ At(r, id \o ".Tier")
       /\ Configure(r, AddTag(graph[r], Path(DemoStack, id), "Tier", TierName(id)))
    \/ /\ At(r, id \o ".InstanceGeneration")
       /\ Configure(r, AddTag(graph[r], Path(DemoStack, id),
                              "InstanceGeneration", "Previous"))

LegacyEcsClusterProps ==
  [vpc |-> Path(DemoStack, "DemoVpc"), clusterName |-> "legacy-ec2-cluster"]

LegacyEcsCluster(r) ==
  /\ At(r, "LegacyEcsCluster")
  /\ Declare(r, Path(DemoStack, "LegacyEcsCluster"),
             Resource("Cluster", DemoStack, LegacyEcsClusterProps,
                      {LegacyEcsClusterProps.vpc}))

\* The options of the two ecsEc2Cluster.addCapacity calls.
LegacyCapacityIds == {"LegacyCapacity", "LegacyCapacityM3"}

\* Mutant: the first pool's desired capacity above its maximum.
CapacityOptionsDesiredAboveMax(id) ==
  CASE id = "LegacyCapacity" ->
         [instanceType |-> "c3.xlarge", minCapacity |-> 2, maxCapacity |-> 6,
          desiredCapacity |-> 8]
    [] id = "LegacyCapacityM3" ->
         [instanceType |-> "m3.large", minCapacity |-> 1, maxCapacity |-> 4,
          desiredCapacity |-> 2]

CapacityOptions(id) ==
  CASE id = "LegacyCapacity" ->
         [instanceType |-> "c3.xlarge", minCapacity |-> 2, maxCapacity |-> 6,
          desiredCapacity |-> 2]
    [] id = "LegacyCapacityM3" ->
         [instanceType |-> "m3.large", minCapacity |-> 1, maxCapacity |-> 4,
          desiredCapacity |-> 2]

\* cluster.addCapacity(id, options): declares an auto-scaling group in the
\* cluster's vpc, with a security group of its own, and attaches it to the
\* cluster.
AddCapacity(g, cluster, id, options) ==
  LET asg == cluster \o "/" \o id
      sg  == asg \o "/InstanceSecurityGroup"
      vpc == g[cluster].props.vpc
      stack == g[cluster].stack
  IN
  [g EXCEPT ![cluster].capacity = @ \cup {asg}]
  @@
  (sg :> SecurityGroup(stack, [vpc |-> vpc, description |-> sg,
                               allowAllOutbound |-> TRUE]))
  @@
  (asg :> Resource("AutoScalingGroup", stack,
                   [vpc |-> vpc, subnetType |-> "PRIVATE_WITH_EGRESS",
                    machineImage |-> "ecs-optimized-amazon-linux-2",
                    role |-> asg \o "/InstanceRole",
                    securityGroups |-> {sg}] @@ options,
                   {cluster, vpc, sg}))

LegacyCapacity(r) ==
  \E id \in LegacyCapacityIds :
    /\ At(r, id)
    /\ Configure(r, AddCapacity(graph[r], Path(DemoStack, "LegacyEcsCluster"),
                                id, CapacityOptions(id)))

\* The stack outputs: id, exported attribute and description.
OutputIds(stack) ==
  IF stack = DemoStack
  THEN {"LoadBalancerDNS", "VpcId", "DatabaseEndpoint", "WebTierAsgName",
        "LegacyEcsClusterName"}
  ELSE {"SqlServerEndpoint", "SqlServerVpcId"}

OutputProps(id) ==
  CASE id = "LoadBalancerDNS" ->
         [value |-> Attr(Path(DemoStack, "DemoWebApp/LB"), "loadBalancerDnsName"),
          description |-> "Application Load Balancer DNS name"]
    [] id = "VpcId" ->
         [value |-> Attr(Path(DemoStack, "DemoVpc"), "vpcId"),
          description |-> "VPC ID"]
    [] id = "DatabaseEndpoint" ->
         [value |-> Attr(Path(DemoStack, "DemoDatabase"), "dbInstanceEndpointAddress"),
          description |-> "RDS Database endpoint"]
    [] id = "WebTierAsgName" ->
         [value |-> Attr(Path(DemoStack, "WebTierAsg"), "autoScalingGroupName"),
          description |-> "Web tier ASG name (M4 instances)"]
    [] id = "LegacyEcsClusterName" ->
         [value |-> Attr(Path(DemoStack, "LegacyEcsCluster"), "clusterName"),
          description |-> "Legacy ECS cluster with EC2 capacity"]
    [] id = "SqlServerEndpoint" ->
         [value |-> Attr(Path(BahrainStack, "SqlServerEnterprise"),
                         "dbInstanceEndpointAddress"),
          description |-> "SQL Server Enterprise endpoint"]
    [] id = "SqlServerVpcId" ->
         [value |-> Attr(Path(BahrainStack, "SqlServerVpc"), "vpcId"),
          description |-> "SQL Server VPC ID"]

\* new cdk.CfnOutput(this, id, props)
CfnOutput(r) ==
  \E stack \in {DemoStack, BahrainStack} :
    \E id \in OutputIds(stack) :
      /\ At(r, id)
      /\ Declare(r, Path(stack, id),
                 Resource("CfnOutput", stack, OutputProps(id), {OutputProps(id).value.ref}))

(***************************************************************************)
(* lib/demo-cdk-stack.ts, SqlServerBahrainStack constructor                *)
(***************************************************************************)
SqlServerVpc(r) ==
  /\ At(r, "SqlServerVpc")
  /\ Declare(r, Path(BahrainStack, "SqlServerVpc"),
             Resource("Vpc", BahrainStack, VpcProps, {}))

SqlServerSecurityGroupProps ==
  [vpc |-> Path(BahrainStack, "SqlServerVpc"),
   description |-> "Security group for SQL Server RDS instance",
   allowAllOutbound |-> FALSE]

SqlServerSecurityGroup(r) ==
  /\ At(r, "SqlServerSecurityGroup")
  /\ Declare(r, Path(BahrainStack, "SqlServerSecurityGroup"),
             SecurityGroup(BahrainStack, SqlServerSecurityGroupProps))

\* Mutant: the two storage bounds exchanged.
SqlServerStorageExchanged == [allocatedStorage |-> 1000, maxAllocatedStorage |-> 200]

SqlServerStorage == [allocatedStorage |-> 200, maxAllocatedStorage |-> 1000]

SqlServerEnterpriseProps ==
  [engine |-> "sqlserver-ee", version |-> "15", instanceType |-> "r5.24xlarge",
   vpc |-> Path(BahrainStack, "SqlServerVpc"),
   subnetType |-> "PRIVATE_ISOLATED",
   securityGroups |-> {Path(BahrainStack, "SqlServerSecurityGroup")},
   databaseName |-> "",
   multiAz |-> TRUE, licenseModel |-> "license-included",
   deletionProtection |-> FALSE, removalPolicy |-> "DESTROY"] @@ SqlServerStorage

SqlServerEnterprise(r) ==
  /\ At(r, "SqlServerEnterprise")
  /\ DeclareAll(r, DatabaseInstance(graph[r], BahrainStack, "SqlServerEnterprise",
                                    SqlServerEnterpriseProps))

\* Every statement but the one that adds the database ingress rule.
OtherStatements(r) ==
  \/ App(r)
  \/ DemoCdkStack(r)
  \/ DemoVpc(r)
  \/ DemoCluster(r)
  \/ DbSecurityGroup(r)
  \/ DemoDatabase(r)
  \/ DemoWebApp(r)
  \/ ConfigureHealthCheck(r)
  \/ AutoScaleTaskCount(r)
  \/ CpuScaling(r)
  \/ MemoryScaling(r)
  \/ LatestAmazonLinux2(r)
  \/ Ec2SecurityGroup(r)
  \/ Ec2IngressRule(r)
  \/ Ec2InstanceRole(r)
  \/ AutoScalingGroup(r)
  \/ TagsAdd(r)
  \/ LegacyEcsCluster(r)
  \/ LegacyCapacity(r)
  \/ CfnOutput(r)
  \/ SqlServerBahrainStack(r)
  \/ SqlServerVpc(r)
  \/ SqlServerSecurityGroup(r)
  \/ SqlServerEnterprise(r)

Next == \E r \in Runs : OtherStatements(r) \/ DbIngressRule(r)

Spec == Init /\ [][Next]_vars

(***************************************************************************)
(* The declaration with the statement of lines 94-98 removed: control      *)
(* passes over it and the graph is left as it was.                         *)
(***************************************************************************)
DbIngressRuleRemoved(r) ==
  /\ At(r, "DbIngressRule")
  /\ Configure(r, graph[r])

NextWithoutDbIngressRule ==
  \E r \in Runs : OtherStatements(r) \/ DbIngressRuleRemoved(r)

SpecWithoutDbIngressRule == Init /\ [][NextWithoutDbIngressRule]_vars

(***************************************************************************)
(* Vocabulary of the properties.                                           *)
(***************************************************************************)
\* The DemoCdkStack constructor has returned in run r.
DemoConstructed(r) == pc[r] > 1 + Len(DemoCdkStackBody)

DbSg == Path(DemoStack, "DbSecurityGroup")
DemoDb == Path(DemoStack, "DemoDatabase")
WebApp == Path(DemoStack, "DemoWebApp")
BahrainDb == Path(BahrainStack, "SqlServerEnterprise")
LegacyCluster == Path(DemoStack, "LegacyEcsCluster")
TargetGroup == Path(DemoStack, "DemoWebApp/LB/PublicListener/ECSGroup")

\* Constructs that send or receive traffic: placed in a subnet tier, member
\* of security groups.
Endpoints(g) ==
  { p \in DOMAIN g : g[p].kind \in {"ApplicationLoadBalancer", "FargateService",
                                    "DatabaseInstance", "AutoScalingGroup"} }

\* A security group admits src on port when one of its ingress rules names
\* that port and either an address range or a group src is a member of.
Admits(g, sg, src, port) ==
  \E rule \in g[sg].ingress :
    /\ rule.port = port
    /\ \/ rule.peer.type = "cidr"
       \/ rule.peer.type = "sg" /\ rule.peer.id \in g[src].props.securityGroups

CanReach(g, src, dst, port) ==
  \E sg \in g[dst].props.securityGroups : sg \in DOMAIN g /\ Admits(g, sg, src, port)

CapacityInRange(props) ==
  props.minCapacity <= props.desiredCapacity /\ props.desiredCapacity <= props.maxCapacity

Databases(g) == { p \in DOMAIN g : g[p].kind = "DatabaseInstance" }

Policies(g) == { p \in DOMAIN g : g[p].kind = "TargetTrackingScalingPolicy" }

\* The database's group names no address range, no endpoint of the public
\* tier reaches the database port, and the database sits in isolated subnets.
DbIsolatedFromPublicTier(g) ==
  /\ \A rule \in g[DbSg].ingress : rule.peer.type # "cidr"
  /\ \A src \in Endpoints(g) :
       g[src].props.subnetType = "PUBLIC" => ~CanReach(g, src, DemoDb, 5432)
  /\ g[DemoDb \o "/SubnetGroup"].props.subnets # {}
  /\ \A sn \in g[DemoDb \o "/SubnetGroup"].props.subnets :
       sn.subnetType = "PRIVATE_ISOLATED"

\* Every construct a descriptor refers to.
ReferencesOf(rec) ==
  rec.refs
    \cup { rule.peer.id : rule \in { x \in rec.ingress : x.peer.type = "sg" } }
    \cup rec.capacity
    \cup (IF rec.kind = "CfnOutput" THEN {rec.props.value.ref} ELSE {})
    \cup (IF rec.kind \in {"ApplicationLoadBalancedFargateService", "FargateTaskDefinition"}
          THEN {rec.props.environment.DB_HOST.ref, rec.props.environment.DB_PORT.ref}
          ELSE {})

(***************************************************************************)
(* C1.  As stated: once the DemoCdkStack constructor has returned, the     *)
(* database's security group holds exactly one ingress rule, TCP 5432 from *)
(* the load balancer's security group, none from an address range, and no  *)
(* endpoint of the public subnet tier can reach the database, which sits   *)
(* only in isolated subnets.                                               *)
(***************************************************************************)
C1_IngressOnlyFromLoadBalancerGroup ==
  \A r \in Runs :
    DemoConstructed(r) =>
      /\ { [peer |-> rule.peer, port |-> rule.port] : rule \in graph[r][DbSg].ingress }
           = { [peer |-> SgPeer(LoadBalancerSecurityGroup(WebApp)), port |-> 5432] }
      /\ DbIsolatedFromPublicTier(graph[r])

\* C1 amended: the single ingress rule of the database's group is TCP 5432
\* from the container service's own security group (not the load balancer's);
\* no rule names an address range, no endpoint of the public tier (the load
\* balancer included) can reach the database, which sits only in isolated
\* subnets.
C1_IngressOnlyFromServiceGroup ==
  \A r \in Runs :
    DemoConstructed(r) =>
      /\ { [peer |-> rule.peer, port |-> rule.port] : rule \in graph[r][DbSg].ingress }
           = { [peer |-> SgPeer(ServiceSecurityGroup(WebApp)), port |-> 5432] }
      /\ DbIsolatedFromPublicTier(graph[r])

C1_Witness ==
  \E r \in Runs :
    /\ DemoConstructed(r)
    /\ graph[r][DbSg].ingress # {}
    /\ \E src \in Endpoints(graph[r]) : graph[r][src].props.subnetType = "PUBLIC"
    /\ CanReach(graph[r], WebApp \o "/Service", DemoDb, 5432)

(***************************************************************************)
(* C2.  Every auto-scaling group of DemoCdkStack has                       *)
(* minCapacity <= desiredCapacity <= maxCapacity, and the four tier pools  *)
(* are declared once the constructor has returned.                         *)
(***************************************************************************)
C2_AsgCapacityInRange ==
  \A r \in Runs :
    /\ \A p \in DOMAIN graph[r] :
         graph[r][p].kind = "AutoScalingGroup" /\ graph[r][p].stack = DemoStack
           => CapacityInRange(graph[r][p].props)
    /\ DemoConstructed(r) =>
         \A id \in TierAsgIds :
           /\ Path(DemoStack, id) \in DOMAIN graph[r]
           /\ graph[r][Path(DemoStack, id)].kind = "AutoScalingGroup"

C2_Witness ==
  \E r \in Runs : \A id \in TierAsgIds : Path(DemoStack, id) \in DOMAIN graph[r]

(***************************************************************************)
(* C3.  Every database instance of either stack has                        *)
(* allocatedStorage <= maxAllocatedStorage.                                *)
(***************************************************************************)
C3_AllocatedStorageWithinMax ==
  \A r \in Runs :
    /\ \A p \in Databases(graph[r]) :
         graph[r][p].props.allocatedStorage <= graph[r][p].props.maxAllocatedStorage
    /\ Done(r) => Databases(graph[r]) = {DemoDb, BahrainDb}

C3_Witness ==
  \E r \in Runs : Databases(graph[r]) = {DemoDb, BahrainDb}

(***************************************************************************)
(* C4.  The database of SqlServerBahrainStack is multi-AZ and its subnet   *)
(* group holds only isolated subnets of the stack's own vpc.               *)
(***************************************************************************)
C4_BahrainMultiAzIsolated ==
  \A r \in Runs :
    BahrainDb \in DOMAIN graph[r] =>
      LET db == graph[r][BahrainDb]
          subnets == graph[r][BahrainDb \o "/SubnetGroup"].props.subnets
      IN /\ db.props.multiAz
         /\ subnets # {}
         /\ \A sn \in subnets :
              /\ sn.subnetType = "PRIVATE_ISOLATED"
              /\ sn.vpc = db.props.vpc
              /\ graph[r][sn.vpc].kind = "Vpc"
              /\ graph[r][sn.vpc].stack = BahrainStack

C4_Witness ==
  \E r \in Runs :
    /\ BahrainDb \in DOMAIN graph[r]
    /\ Cardinality(graph[r][BahrainDb \o "/SubnetGroup"].props.subnets) = 2

C6_NoRuleNoAccess ==
  \A r \in Runs :
    /\ DbSg \in DOMAIN graph[r] => graph[r][DbSg].ingress = {}
    /\ DemoConstructed(r) =>
         \A src \in Endpoints(graph[r]) : ~CanReach(graph[r], src, DemoDb, 5432)

C6_Witness ==
  \E r \in Runs :
    /\ DemoConstructed(r)
    /\ WebApp \o "/Service" \in Endpoints(graph[r])
    /\ DemoDb \in Endpoints(graph[r])
    /\ graph[r][DemoDb].props.securityGroups = {DbSg}

(***************************************************************************)
(* C7.  As stated: the cluster named legacy-ec2-cluster has exactly two    *)
(* pools attached and each has minCapacity = desiredCapacity = maxCapacity.*)
(***************************************************************************)
C7_TwoFixedCapacityPools ==
  \A r \in Runs :
    DemoConstructed(r) =>
      /\ graph[r][LegacyCluster].props.clusterName = "legacy-ec2-cluster"
      /\ Cardinality(graph[r][LegacyCluster].capacity) = 2
      /\ \A p \in graph[r][LegacyCluster].capacity :
           /\ graph[r][p].props.minCapacity = graph[r][p].props.desiredCapacity
           /\ graph[r][p].props.desiredCapacity = graph[r][p].props.maxCapacity

\* C7 amended: the cluster named legacy-ec2-cluster has exactly two pools
\* attached; each is an auto-scaling group with
\* minCapacity <= desiredCapacity <= maxCapacity and minCapacity < maxCapacity
\* (2/2/6 and 1/2/4), so neither is fixed-capacity.
C7_TwoBoundedPools ==
  \A r \in Runs :
    DemoConstructed(r) =>
      /\ graph[r][LegacyCluster].props.clusterName = "legacy-ec2-cluster"
      /\ Cardinality(graph[r][LegacyCluster].capacity) = 2
      /\ \A p \in graph[r][LegacyCluster].capacity :
           /\ p \in DOMAIN graph[r]
           /\ graph[r][p].kind = "AutoScalingGroup"
           /\ CapacityInRange(graph[r][p].props)
           /\ graph[r][p].props.minCapacity < graph[r][p].props.maxCapacity

C7_Witness ==
  \E r \in Runs :
    /\ DemoConstructed(r)
    /\ graph[r][LegacyCluster].capacity # {}

(***************************************************************************)
(* C8.  As stated: no step changes a descriptor declared before.           *)
(***************************************************************************)
C8_NoDescriptorChanges ==
  [][\A r \in Runs : \A p \in DOMAIN graph[r] : graph'[r][p] = graph[r][p]]_vars

\* C8 amended: no step removes a declared descriptor or changes its kind,
\* stack or constructor properties; later steps do change declared
\* descriptors, but only by adding to them (ingress rules, the health check,
\* tags, attached capacity and the references these bring).
C8_DescriptorsOnlyGrow ==
  [][\A r \in Runs : \A p \in DOMAIN graph[r] :
       /\ p \in DOMAIN graph'[r]
       /\ graph'[r][p].kind = graph[r][p].kind
       /\ graph'[r][p].stack = graph[r][p].stack
       /\ graph'[r][p].props = graph[r][p].props
       /\ graph[r][p].refs \subseteq graph'[r][p].refs
       /\ graph[r][p].ingress \subseteq graph'[r][p].ingress
       /\ graph[r][p].tags \subseteq graph'[r][p].tags
       /\ graph[r][p].capacity \subseteq graph'[r][p].capacity
       /\ graph[r][p].healthCheck \subseteq graph'[r][p].healthCheck]_vars

C8_Witness ==
  \E r \in Runs :
    /\ Done(r)
    /\ graph[r][DbSg].ingress # {}
    /\ graph[r][TargetGroup].healthCheck # {}
    /\ Cardinality(graph[r][Path(DemoStack, "WebTierAsg")].tags) = 2
    /\ graph[r][LegacyCluster].capacity # {}

(***************************************************************************)
(* C9.  Every reference a statement makes is to a construct declared by an *)
(* earlier statement of the same stack: the references of every declared   *)
(* construct, the peers of its ingress rules, the DB_HOST/DB_PORT bindings *)
(* and the values of the outputs all resolve within the run's graph and    *)
(* within the construct's own stack.                                       *)
(***************************************************************************)
C9_ReferencesDeclaredEarlier ==
  \A r \in Runs : \A p \in DOMAIN graph[r] :
    \A q \in ReferencesOf(graph[r][p]) :
      /\ q \in DOMAIN graph[r]
      /\ graph[r][q].stack = graph[r][p].stack

C9_Witness ==
  \E r \in Runs :
    /\ Done(r)
    /\ SgPeer(ServiceSecurityGroup(WebApp)) \in
         { rule.peer : rule \in graph[r][DbSg].ingress }
    /\ DemoDb \in ReferencesOf(graph[r][WebApp])
    /\ \A stack \in {DemoStack, BahrainStack} :
         \A id \in OutputIds(stack) : Path(stack, id) \in DOMAIN graph[r]

(***************************************************************************)
(* C10.  The load-balanced service is public, its task count scales        *)
(* between 2 and 10 with the desired count 2 inside that range, it has     *)
(* exactly two scaling policies, CPU and memory, each targeting 70         *)
(* percent, and its health check asks for "/" and accepts code 200 only.   *)
(***************************************************************************)
C10_ServiceScalingAndHealthCheck ==
  \A r \in Runs :
    DemoConstructed(r) =>
      LET g == graph[r]
          scaling == g[ScalableTarget].props
      IN /\ g[WebApp].props.publicLoadBalancer
         /\ g[WebApp \o "/LB"].props.internetFacing
         /\ scaling.service = WebApp \o "/Service"
         /\ scaling.minCapacity = 2 /\ scaling.maxCapacity = 10
         /\ g[WebApp \o "/Service"].props.desiredCount = 2
         /\ scaling.minCapacity <= g[WebApp \o "/Service"].props.desiredCount
         /\ g[WebApp \o "/Service"].props.desiredCount <= scaling.maxCapacity
         /\ { [metric |-> g[p].props.metric,
               target |-> g[p].props.targetUtilizationPercent] : p \in Policies(g) }
              = { [metric |-> "ECSServiceAverageCPUUtilization", target |-> 70],
                  [metric |-> "ECSServiceAverageMemoryUtilization", target |-> 70] }
         /\ Cardinality(Policies(g)) = 2
         /\ \A p \in Policies(g) : g[p].props.scalingTarget = ScalableTarget
         /\ g[TargetGroup].healthCheck = {[path |-> "/", healthyHttpCodes |-> "200"]}

C10_Witness ==
  \E r \in Runs :
    /\ DemoConstructed(r)
    /\ Policies(graph[r]) # {}
    /\ graph[r][TargetGroup].healthCheck # {}
====
